---- MODULE Spec2Model ----
(***************************************************************************)
(* Model of the concurrent job controller of src/app.py: JobController,    *)
(* ConvertTask.run on the threads of the global QThreadPool, the pause     *)
(* gate (threading.Condition) and safe_remove.                             *)
(*                                                                         *)
(* The controller's counters are plain Python attributes updated without   *)
(* a lock from the worker threads (ConvertTask.run calls task_finished     *)
(* directly), so every read and every write of a shared attribute is a     *)
(* step of its own.                                                        *)
(***************************************************************************)
EXTENDS Integers, Sequences, FiniteSets, TLC

\* ------------------------------------------------------------------ bounds
\* Largest number of input files of a job.
NumFiles == 3
\* Largest max_workers given to the thread pool.
MaxWorkers == 2
\* Largest retries argument of safe_remove under RemoveSpec.
MaxRetries == 3
\* Largest job under LiveSpec, the specification with fairness.
LiveFiles == 2
\* Largest suffix i of the output names <base>_<i>.webp kept on the disk.
MaxIndex == 2
\* Largest reading of the clock (seconds since start_time) under EtaSpec.
MaxElapsed == 10
\* Largest job under EtaSpec.
EtaFiles == 10

\* safe_remove(path, retries=3)
DefaultRetries == 3

Files == 1..NumFiles

\* Sizes of the input files and of their encoded outputs (bytes).
Sizes == << <<100, 50>>, <<200, 80>>, <<150, 60>>, <<300, 100>> >>
OrigSize(f) == IF f <= Len(Sizes) THEN Sizes[f][1] ELSE 100 * f
WebpSize(f) == IF f <= Len(Sizes) THEN Sizes[f][2] ELSE 10 * f

RECURSIVE SumOrig(_), SumWebp(_)
SumOrig(S) == IF S = {} THEN 0
              ELSE LET f == CHOOSE x \in S : TRUE IN OrigSize(f) + SumOrig(S \ {f})
SumWebp(S) == IF S = {} THEN 0
              ELSE LET f == CHOOSE x \in S : TRUE IN WebpSize(f) + SumWebp(S \ {f})

\* The base name of an input file (its name without directory and
\* extension): the files 1 and 2 have the same one (photo.png, photo.jpg),
\* every other file has its own.
Base(f) == IF f = 2 THEN 1 ELSE f
Bases == {Base(f) : f \in Files}

\* The output paths: <<b, 0>> is output_dir/<b>.webp and <<b, i>> with
\* i >= 1 is output_dir/<b>_<i>.webp.
Paths == Bases \X (0..MaxIndex)

\* disk[p] when there is no file at p.
NoFile == -1
\* Size of a file that was in output_dir before the job.
OldSize == 1

\* os.path.exists(p)
Exists(d, p) == p \in DOMAIN d /\ d[p] # NoFile

EmptyDisk == [p \in Paths |-> NoFile]

\* The suffix resolve_name gives file t when the files before it have been
\* saved one after the other into an empty output_dir.
NameIndex(t) == Cardinality({u \in 1..(t - 1) : Base(u) = Base(t)})

\* output_dir, empty at first, after the files 1..n have been saved one
\* after the other.
DiskOf(n) ==
    [p \in Paths |->
       IF \E t \in Files : t <= n /\ p = << Base(t), NameIndex(t) >>
       THEN WebpSize(CHOOSE t \in Files : t <= n /\ p = << Base(t), NameIndex(t) >>)
       ELSE NoFile]

VARIABLES
    total,            \* JobController.total = len(files)
    max_workers,      \* QThreadPool.maxThreadCount
    delete_originals, \* JobController.delete_originals
    retries,          \* safe_remove's retries argument
    completed,        \* JobController.completed
    orig_bytes,       \* JobController.orig_bytes
    webp_bytes,       \* JobController.webp_bytes
    cancelled,        \* JobController.cancelled
    paused,           \* JobController.paused
    lock,             \* worker holding pause_cond's lock (its file), 0 if free
    started,          \* start() has been called
    mainpc,           \* position of the caller's thread
    submitted,        \* files handed to pool.start so far
    pc,               \* position of each ConvertTask
    reg,              \* value a task has read and not yet used
    ckpt,             \* what the task read from ctrl.cancelled at line 45
    gatePasses,       \* times the task left the pause block (lines 40-42)
    rmLog,            \* outcomes of the os.remove attempts of the task's
                      \* safe_remove call, until the task goes on
    hitTotal,         \* tasks whose own "completed += 1" stored total
    tfCalls,          \* calls of task_finished made by the task
    teCalls,          \* calls of task_error made by the task
    progressEvents,   \* progress.emit values, in emission order
    etaEvents,        \* number of eta.emit calls
    errorEvents,      \* number of error.emit calls
    finishedEvents,   \* finished.emit payloads, in emission order
    finishedBy,       \* the task whose call made each finished.emit
    disk,             \* size of the file at each output path, NoFile if none
    path,             \* the suffix of the task's path / output_path
    webp_size,        \* the task's local webp_size
    removed,          \* input files deleted by os.remove
    now,              \* time.monotonic() - start_time, in seconds
    etaLabel,         \* the last eta.emit value as <<h, m, s>>, << >> if none
    job2              \* the next job on the same pool, see PoolSpec

vars == << total, max_workers, delete_originals, retries, completed, orig_bytes,
           webp_bytes, cancelled, paused, lock, started, mainpc, submitted, pc,
           reg, ckpt, gatePasses, rmLog, hitTotal, tfCalls, teCalls,
           progressEvents,
           etaEvents, errorEvents, finishedEvents, finishedBy, disk, path,
           webp_size, removed, now, etaLabel, job2 >>

config == << total, max_workers, delete_originals, retries >>
counters == << completed, orig_bytes, webp_bytes >>
events == << progressEvents, etaEvents, errorEvents, finishedEvents,
            finishedBy >>
gate == << paused, lock >>
mainvars == << started, mainpc, submitted >>
calls == << hitTotal, tfCalls, teCalls >>
fs == << disk, path, webp_size, removed >>
timer == << now, etaLabel >>

Job == 1..total

\* No further job has been created on the pool.
NoJob2 == [created |-> FALSE, queued |-> 0, running |-> 0]

\* Tasks that occupy a thread of the pool.
Idle == {"new", "queued", "done"}
Active == {t \in Files : pc[t] \notin Idle}

\* ------------------------------------------------------------------ Init
\* JobController.__init__, and the tasks' locals before they run
Fresh ==
    /\ completed = 0
    /\ orig_bytes = 0
    /\ webp_bytes = 0
    /\ cancelled = FALSE
    /\ paused = FALSE
    /\ lock = 0
    /\ started = FALSE
    /\ mainpc = "idle"
    /\ submitted = 0
    /\ pc = [t \in Files |-> "new"]
    /\ reg = [t \in Files |-> << >>]
    /\ ckpt = [t \in Files |-> "unread"]
    /\ gatePasses = [t \in Files |-> 0]
    /\ rmLog = [t \in Files |-> << >>]
    /\ hitTotal = {}
    /\ tfCalls = [t \in Files |-> 0]
    /\ teCalls = [t \in Files |-> 0]
    /\ progressEvents = << >>
    /\ etaEvents = 0
    /\ errorEvents = 0
    /\ finishedEvents = << >>
    /\ finishedBy = << >>
    /\ path = [t \in Files |-> 0]
    /\ webp_size = [t \in Files |-> 0]
    /\ removed = {}
    /\ etaLabel = << >>
    /\ job2 = NoJob2

JobInit ==
    /\ total \in 1..NumFiles
    /\ max_workers \in 1..MaxWorkers
    /\ delete_originals \in BOOLEAN
    /\ Fresh

\* A job of 1..NumFiles files on 1..MaxWorkers threads, as the window
\* starts it: output_dir holds no .webp file yet, and the job is over
\* before the clock, read in whole seconds, has moved on.
Init ==
    /\ JobInit
    /\ retries = DefaultRetries
    /\ disk = EmptyDisk
    /\ now = 0

\* ------------------------------------------------------- caller's thread
\* JobController.start: entered once, then the loop over self.files.
StartCall ==
    /\ mainpc = "idle"
    /\ ~started
    /\ started' = TRUE
    /\ mainpc' = "start"
    /\ UNCHANGED << config, fs, timer, job2, counters, cancelled, gate, submitted, pc, reg, ckpt,
                    gatePasses, rmLog, calls, events >>

\* One iteration of the loop: break when cancelled, else pool.start(task).
Submit ==
    /\ mainpc = "start"
    /\ submitted < total
    /\ IF cancelled
       THEN /\ mainpc' = "idle"
            /\ UNCHANGED << submitted, pc >>
       ELSE /\ submitted' = submitted + 1
            /\ pc' = [pc EXCEPT ![submitted + 1] = "queued"]
            /\ mainpc' = mainpc
    /\ UNCHANGED << config, fs, timer, job2, counters, cancelled, gate, started, reg, ckpt,
                    gatePasses, rmLog, calls, events >>

StartReturn ==
    /\ mainpc = "start"
    /\ submitted = total
    /\ mainpc' = "idle"
    /\ UNCHANGED << config, fs, timer, job2, counters, cancelled, gate, started, submitted, pc,
                    reg, ckpt, gatePasses, rmLog, calls, events >>

\* JobController.pause: with the lock of pause_cond held, sets the flag.
\* The caller's thread does nothing else while it holds the lock, so taking
\* the lock, the body and the release are one step, enabled when the lock
\* is free.
Pause ==
    /\ mainpc = "idle"
    /\ lock = 0
    /\ paused' = TRUE
    /\ UNCHANGED << config, fs, timer, job2, counters, cancelled, lock, mainvars, pc, reg, ckpt,
                    gatePasses, rmLog, calls, events >>

\* Lost-wakeup variant of Resume: the flag is cleared, nobody is notified.
ResumeNoNotify ==
    /\ mainpc = "idle"
    /\ lock = 0
    /\ paused' = FALSE
    /\ UNCHANGED << config, fs, timer, job2, counters, cancelled, lock, mainvars, pc, reg, ckpt,
                    gatePasses, rmLog, calls, events >>

\* Variant of Resume with notify() for notify_all(): one waiter is woken.
ResumeNotifyOne ==
    /\ mainpc = "idle"
    /\ lock = 0
    /\ paused' = FALSE
    /\ IF \E t \in Files : pc[t] = "wait"
       THEN \E t \in Files :
              /\ pc[t] = "wait"
              /\ pc' = [pc EXCEPT ![t] = "woken"]
       ELSE UNCHANGED pc
    /\ UNCHANGED << config, fs, timer, job2, counters, cancelled, lock, mainvars, reg, ckpt,
                    gatePasses, rmLog, calls, events >>

\* JobController.resume: with the lock held, clears the flag and
\* notify_all() wakes every thread blocked in wait().
Resume ==
    /\ mainpc = "idle"
    /\ lock = 0
    /\ paused' = FALSE
    /\ pc' = [t \in Files |-> IF pc[t] = "wait" THEN "woken" ELSE pc[t]]
    /\ UNCHANGED << config, fs, timer, job2, counters, cancelled, lock, mainvars, reg, ckpt,
                    gatePasses, rmLog, calls, events >>

\* JobController.cancel
Cancel ==
    /\ mainpc = "idle"
    /\ cancelled' = TRUE
    /\ UNCHANGED << config, fs, timer, job2, counters, gate, mainvars, pc, reg, ckpt, gatePasses,
                    rmLog, calls, events >>

\* ------------------------------------------------------------ thread pool
\* setMaxThreadCount(max_workers): the pool runs at most max_workers tasks
\* at a time, and one at a time when the limit is zero or less.
PoolThreads == IF max_workers < 1 THEN 1 ELSE max_workers

\* QThreadPool runs the queued tasks in submission order, at most
\* PoolThreads at a time, the tasks of every job counted; a task keeps its
\* thread until run() returns.
PoolStart(t) ==
    /\ pc[t] = "queued"
    /\ \A u \in Files : pc[u] = "queued" => t <= u
    /\ Cardinality(Active) + job2.running < PoolThreads
    /\ pc' = [pc EXCEPT ![t] = "lock"]
    /\ UNCHANGED << config, fs, timer, job2, counters, cancelled, gate, mainvars, reg, ckpt,
                    gatePasses, rmLog, calls, events >>

\* ------------------------------------------------------- ConvertTask.run
\* "with ctrl.pause_cond": the worker acquires the lock.
GateAcquire(t) ==
    /\ pc[t] = "lock"
    /\ lock = 0
    /\ lock' = t
    /\ pc' = [pc EXCEPT ![t] = "test"]
    /\ UNCHANGED << config, fs, timer, job2, counters, cancelled, paused, mainvars, reg, ckpt,
                    gatePasses, rmLog, calls, events >>

\* "while ctrl.paused: ctrl.pause_cond.wait()", the lock held: wait()
\* releases the lock and blocks; otherwise the with block is left.
GateTest(t) ==
    /\ pc[t] = "test"
    /\ lock = t
    /\ lock' = 0
    /\ IF paused
       THEN /\ pc' = [pc EXCEPT ![t] = "wait"]
            /\ UNCHANGED gatePasses
       ELSE /\ pc' = [pc EXCEPT ![t] = "check"]
            /\ gatePasses' = [gatePasses EXCEPT ![t] = @ + 1]
    /\ UNCHANGED << config, fs, timer, job2, counters, cancelled, paused, mainvars, reg, ckpt,
                    rmLog, calls, events >>

\* A notified waiter re-acquires the lock before wait() returns.
GateWake(t) ==
    /\ pc[t] = "woken"
    /\ lock = 0
    /\ lock' = t
    /\ pc' = [pc EXCEPT ![t] = "test"]
    /\ UNCHANGED << config, fs, timer, job2, counters, cancelled, paused, mainvars, reg, ckpt,
                    gatePasses, rmLog, calls, events >>

\* Variant of CancelCheck that reads the flag and converts all the same.
CancelCheckIgnored(t) ==
    /\ pc[t] = "check"
    /\ ckpt' = [ckpt EXCEPT ![t] = IF cancelled THEN "true" ELSE "false"]
    /\ pc' = [pc EXCEPT ![t] = "convert"]
    /\ UNCHANGED << config, fs, timer, job2, counters, cancelled, gate, mainvars, reg,
                    gatePasses, rmLog, calls, events >>

\* "if ctrl.cancelled: return"
CancelCheck(t) ==
    /\ pc[t] = "check"
    /\ IF cancelled
       THEN /\ ckpt' = [ckpt EXCEPT ![t] = "true"]
            /\ pc' = [pc EXCEPT ![t] = "done"]
       ELSE /\ ckpt' = [ckpt EXCEPT ![t] = "false"]
            /\ pc' = [pc EXCEPT ![t] = "convert"]
    /\ UNCHANGED << config, fs, timer, job2, counters, cancelled, gate, mainvars, reg,
                    gatePasses, rmLog, calls, events >>

\* getsize, Image.open and img.load of the input file: any of them may
\* raise, which the except clause turns into task_error.
Convert(t) ==
    /\ pc[t] = "convert"
    /\ \E ok \in BOOLEAN :
         pc' = [pc EXCEPT ![t] = IF ok THEN "resolve" ELSE "error"]
    /\ UNCHANGED << config, fs, timer, job2, counters, cancelled, gate, mainvars, reg, ckpt,
                    gatePasses, rmLog, calls, events >>

\* Variant of ResolveProbe that never tries <base>.webp itself.
ResolveProbeSkipBase(t) ==
    /\ pc[t] = "resolve"
    /\ IF path[t] = 0 \/ Exists(disk, << Base(t), path[t] >>)
       THEN /\ path' = [path EXCEPT ![t] = @ + 1]
            /\ UNCHANGED pc
       ELSE /\ pc' = [pc EXCEPT ![t] = "save"]
            /\ UNCHANGED path
    /\ UNCHANGED << config, disk, webp_size, removed, timer, job2, counters, cancelled, gate,
                    mainvars, reg, ckpt, gatePasses, rmLog, calls, events >>

\* Variant of ResolveProbe that reserves the name it returns by creating
\* the file (an empty one) in the step that finds the name free.
ResolveProbeReserve(t) ==
    /\ pc[t] = "resolve"
    /\ IF Exists(disk, << Base(t), path[t] >>)
       THEN /\ path' = [path EXCEPT ![t] = @ + 1]
            /\ UNCHANGED << pc, disk >>
       ELSE /\ pc' = [pc EXCEPT ![t] = "save"]
            /\ disk' = [p \in DOMAIN disk |->
                          IF p = << Base(t), path[t] >> THEN 0 ELSE disk[p]]
            /\ UNCHANGED path
    /\ UNCHANGED << config, webp_size, removed, timer, job2, counters, cancelled, gate,
                    mainvars, reg, ckpt, gatePasses, rmLog, calls, events >>

\* JobController.resolve_name(base): path starts as <base>.webp (suffix 0,
\* the value of path when the task gets here); each step is one test of
\* "while os.path.exists(path)": the next name if the file exists, else
\* "return path", which run() keeps as output_path.
ResolveProbe(t) ==
    /\ pc[t] = "resolve"
    /\ IF Exists(disk, << Base(t), path[t] >>)
       THEN /\ path' = [path EXCEPT ![t] = @ + 1]
            /\ UNCHANGED pc
       ELSE /\ pc' = [pc EXCEPT ![t] = "save"]
            /\ UNCHANGED path
    /\ UNCHANGED << config, disk, webp_size, removed, timer, job2, counters, cancelled, gate,
                    mainvars, reg, ckpt, gatePasses, rmLog, calls, events >>

\* What the encoder leaves behind: the encoded file, an empty file, or an
\* exception before anything is written (save_with_metadata on a file that
\* is not a PNG).
SaveOutcomes == {"ok", "empty", "raised"}

\* save_with_metadata / img.save(output_path, "webp"): the file at
\* output_path is created or overwritten.
Save(t) ==
    /\ pc[t] = "save"
    /\ \E o \in SaveOutcomes :
         IF o = "raised"
         THEN /\ pc' = [pc EXCEPT ![t] = "error"]
              /\ UNCHANGED disk
         ELSE /\ pc' = [pc EXCEPT ![t] = "verify"]
              /\ disk' = [p \in DOMAIN disk |->
                            IF p = << Base(t), path[t] >>
                            THEN (IF o = "ok" THEN WebpSize(t) ELSE 0)
                            ELSE disk[p]]
    /\ UNCHANGED << config, path, webp_size, removed, timer, job2, counters, cancelled, gate,
                    mainvars, reg, ckpt, gatePasses, rmLog, calls, events >>

\* Variant of Verify in which an empty output ends the task without a report.
VerifySilent(t) ==
    /\ pc[t] = "verify"
    /\ LET size == disk[<< Base(t), path[t] >>]
       IN  /\ webp_size' = [webp_size EXCEPT ![t] = IF size <= 0 THEN 0 ELSE size]
           /\ pc' = [pc EXCEPT ![t] =
                       IF size <= 0 THEN "done"
                       ELSE IF delete_originals THEN "remove"
                       ELSE "tf_call"]
    /\ path' = [path EXCEPT ![t] = 0]
    /\ UNCHANGED << config, disk, removed, timer, job2, counters, cancelled, gate, mainvars, reg, ckpt,
                    gatePasses, rmLog, calls, events >>

\* Variant of Verify that lets an output of any size pass.
VerifyAnySize(t) ==
    /\ pc[t] = "verify"
    /\ webp_size' = [webp_size EXCEPT ![t] = disk[<< Base(t), path[t] >>]]
    /\ pc' = [pc EXCEPT ![t] = IF delete_originals THEN "remove" ELSE "tf_call"]
    /\ path' = [path EXCEPT ![t] = 0]
    /\ UNCHANGED << config, disk, removed, timer, job2, counters, cancelled, gate, mainvars, reg,
                    ckpt, gatePasses, rmLog, calls, events >>

\* webp_size = getsize(output_path), the size of whatever file is at
\* output_path now; "if webp_size <= 0: raise"; "if ctrl.delete_originals:
\* safe_remove(...)"; else task_finished. output_path is not used again.
Verify(t) ==
    /\ pc[t] = "verify"
    /\ webp_size' = [webp_size EXCEPT ![t] = disk[<< Base(t), path[t] >>]]
    /\ pc' = [pc EXCEPT ![t] =
                IF disk[<< Base(t), path[t] >>] <= 0 THEN "error"
                ELSE IF delete_originals THEN "remove"
                ELSE "tf_call"]
    /\ path' = [path EXCEPT ![t] = 0]
    /\ UNCHANGED << config, disk, removed, timer, job2, counters, cancelled, gate, mainvars, reg, ckpt,
                    gatePasses, rmLog, calls, events >>

\* ------------------------------------------------------------ safe_remove
RemoveOutcomes == {"ok", "perm", "other"}

\* Where one os.remove attempt leaves safe_remove, given the attempts made
\* before it (log), the attempt's outcome and the retry budget: inside the
\* loop PermissionError is swallowed (sleep, next attempt) and any other
\* error propagates; the attempt after the loop is unguarded.
\* Variant of AfterAttempt without the attempt after the loop: the last
\* PermissionError of the loop is raised.
AfterAttemptNoFinal(log, o, r) ==
    IF o = "ok" THEN "returned"
    ELSE IF Len(log) + 1 < r /\ o = "perm" THEN "retry"
    ELSE "raised"

AfterAttempt(log, o, r) ==
    IF o = "ok" THEN "returned"
    ELSE IF Len(log) < r /\ o = "perm" THEN "retry"
    ELSE "raised"

\* Variant of RemoveAttempt in which run() goes on to task_finished when
\* safe_remove has raised.
RemoveAttemptLenient(t) ==
    /\ pc[t] = "remove"
    /\ \E o \in RemoveOutcomes :
         /\ rmLog' = [rmLog EXCEPT ![t] = Append(@, o)]
         /\ removed' = IF o = "ok" THEN removed \cup {t} ELSE removed
         /\ pc' = [pc EXCEPT ![t] =
                     IF AfterAttempt(rmLog[t], o, retries) = "retry"
                     THEN "remove" ELSE "tf_call"]
    /\ UNCHANGED << config, disk, path, webp_size, timer, job2, counters, cancelled, gate,
                    mainvars, reg, ckpt, gatePasses, calls, events >>

\* One os.remove(self.img_path) of safe_remove; the attempt that succeeds
\* deletes the input file.
RemoveAttempt(t) ==
    /\ pc[t] = "remove"
    /\ \E o \in RemoveOutcomes :
         /\ rmLog' = [rmLog EXCEPT ![t] = Append(@, o)]
         /\ removed' = IF o = "ok" THEN removed \cup {t} ELSE removed
         /\ pc' = [pc EXCEPT ![t] =
                     CASE AfterAttempt(rmLog[t], o, retries) = "returned" -> "tf_call"
                       [] AfterAttempt(rmLog[t], o, retries) = "retry" -> "remove"
                       [] OTHER -> "error"]
    /\ UNCHANGED << config, disk, path, webp_size, timer, job2, counters, cancelled, gate, mainvars, reg, ckpt,
                    gatePasses, calls, events >>

\* ----------------------------------------------- JobController.task_error
\* Variant of TaskError that counts the failed task as completed.
TaskErrorCounted(t) ==
    /\ pc[t] = "error"
    /\ teCalls' = [teCalls EXCEPT ![t] = @ + 1]
    /\ errorEvents' = errorEvents + 1
    /\ completed' = completed + 1
    /\ pc' = [pc EXCEPT ![t] = "done"]
    /\ rmLog' = [rmLog EXCEPT ![t] = << >>]
    /\ path' = [path EXCEPT ![t] = 0]
    /\ webp_size' = [webp_size EXCEPT ![t] = 0]
    /\ UNCHANGED << config, disk, removed, timer, job2, orig_bytes, webp_bytes, cancelled, gate, mainvars,
                    reg, ckpt, gatePasses, hitTotal, tfCalls, progressEvents,
                    etaEvents, finishedEvents, finishedBy >>

\* except Exception: ctrl.task_error(...), which emits error; run() returns.
TaskError(t) ==
    /\ pc[t] = "error"
    /\ teCalls' = [teCalls EXCEPT ![t] = @ + 1]
    /\ errorEvents' = errorEvents + 1
    /\ pc' = [pc EXCEPT ![t] = "done"]
    /\ rmLog' = [rmLog EXCEPT ![t] = << >>]
    /\ path' = [path EXCEPT ![t] = 0]
    /\ webp_size' = [webp_size EXCEPT ![t] = 0]
    /\ UNCHANGED << config, disk, removed, timer, job2, counters, cancelled, gate, mainvars, reg, ckpt,
                    gatePasses, hitTotal, tfCalls, progressEvents, etaEvents,
                    finishedEvents, finishedBy >>


\* -------------------------------------------- JobController.task_finished
\* Called on the worker's thread. "self.completed += 1" is a read, an add
\* and a write; nothing keeps another thread from running in between.
TfReadCompleted(t) ==
    /\ pc[t] = "tf_call"
    /\ tfCalls' = [tfCalls EXCEPT ![t] = @ + 1]
    /\ reg' = [reg EXCEPT ![t] = << completed >>]
    /\ pc' = [pc EXCEPT ![t] = "tf_c_wr"]
    /\ rmLog' = [rmLog EXCEPT ![t] = << >>]
    /\ UNCHANGED << config, fs, timer, job2, counters, cancelled, gate, mainvars, ckpt,
                    gatePasses, hitTotal, teCalls, events >>

TfWriteCompleted(t) ==
    /\ pc[t] = "tf_c_wr"
    /\ completed' = reg[t][1] + 1
    /\ hitTotal' = IF reg[t][1] + 1 = total THEN hitTotal \cup {t} ELSE hitTotal
    /\ reg' = [reg EXCEPT ![t] = << >>]
    /\ pc' = [pc EXCEPT ![t] = "tf_o_rd"]
    /\ UNCHANGED << config, fs, timer, job2, orig_bytes, webp_bytes, cancelled, gate, mainvars,
                    ckpt, gatePasses, rmLog, tfCalls, teCalls, events >>

\* "self.orig_bytes += orig"
TfReadOrig(t) ==
    /\ pc[t] = "tf_o_rd"
    /\ reg' = [reg EXCEPT ![t] = << orig_bytes >>]
    /\ pc' = [pc EXCEPT ![t] = "tf_o_wr"]
    /\ UNCHANGED << config, fs, timer, job2, counters, cancelled, gate, mainvars, ckpt,
                    gatePasses, rmLog, calls, events >>

TfWriteOrig(t) ==
    /\ pc[t] = "tf_o_wr"
    /\ orig_bytes' = reg[t][1] + OrigSize(t)
    /\ reg' = [reg EXCEPT ![t] = << >>]
    /\ pc' = [pc EXCEPT ![t] = "tf_w_rd"]
    /\ UNCHANGED << config, fs, timer, job2, completed, webp_bytes, cancelled, gate, mainvars,
                    ckpt, gatePasses, rmLog, calls, events >>

\* "self.webp_bytes += webp"
TfReadWebp(t) ==
    /\ pc[t] = "tf_w_rd"
    /\ reg' = [reg EXCEPT ![t] = << webp_bytes >>]
    /\ pc' = [pc EXCEPT ![t] = "tf_w_wr"]
    /\ UNCHANGED << config, fs, timer, job2, counters, cancelled, gate, mainvars, ckpt,
                    gatePasses, rmLog, calls, events >>

\* webp is the webp_size that run() passed; it is not used again.
TfWriteWebp(t) ==
    /\ pc[t] = "tf_w_wr"
    /\ webp_bytes' = reg[t][1] + webp_size[t]
    /\ webp_size' = [webp_size EXCEPT ![t] = 0]
    /\ reg' = [reg EXCEPT ![t] = << >>]
    /\ pc' = [pc EXCEPT ![t] = "tf_pct"]
    /\ UNCHANGED << config, disk, path, removed, timer, job2, completed, orig_bytes, cancelled, gate, mainvars,
                    ckpt, gatePasses, rmLog, calls, events >>

\* int((completed / total) * 100)
Percent(c, n) == (c * 100) \div n

\* "percent = int((self.completed / self.total) * 100)" reads completed anew
TfPercent(t) ==
    /\ pc[t] = "tf_pct"
    /\ reg' = [reg EXCEPT ![t] = << Percent(completed, total) >>]
    /\ pc' = [pc EXCEPT ![t] = "tf_emit"]
    /\ UNCHANGED << config, fs, timer, job2, counters, cancelled, gate, mainvars, ckpt,
                    gatePasses, rmLog, calls, events >>

\* "self.progress.emit(percent)"
TfEmitProgress(t) ==
    /\ pc[t] = "tf_emit"
    /\ progressEvents' = Append(progressEvents, reg[t][1])
    /\ reg' = [reg EXCEPT ![t] = << >>]
    /\ pc' = [pc EXCEPT ![t] = "tf_eta"]
    /\ UNCHANGED << config, fs, timer, job2, counters, cancelled, gate, mainvars, ckpt,
                    gatePasses, rmLog, calls, etaEvents, errorEvents,
                    finishedEvents, finishedBy >>

\* "rate = self.completed / elapsed if elapsed else 0", kept as a fraction
Rate(c, elapsed) ==
    IF elapsed # 0 THEN [num |-> c, den |-> elapsed] ELSE [num |-> 0, den |-> 1]

\* Variant of Eta that multiplies by the rate.
EtaTimesRate(remaining, rate) ==
    IF rate.num # 0 THEN (remaining * rate.num) \div rate.den ELSE 0

\* "eta = remaining / rate if rate else 0"; time.gmtime(eta) drops the
\* fraction of a second.
Eta(remaining, rate) ==
    IF rate.num # 0 THEN (remaining * rate.den) \div rate.num ELSE 0

\* time.strftime("%H:%M:%S", time.gmtime(secs)): hours, minutes, seconds of
\* the time of day.
Strftime(secs) == << (secs \div 3600) % 24, (secs \div 60) % 60, secs % 60 >>

\* "elapsed = time.monotonic() - self.start_time" and the read of completed
\* in "rate = self.completed / elapsed ..."
TfEtaRate(t) ==
    /\ pc[t] = "tf_eta"
    /\ reg' = [reg EXCEPT ![t] = << completed, now >>]
    /\ pc' = [pc EXCEPT ![t] = "tf_eta_emit"]
    /\ UNCHANGED << config, fs, timer, job2, counters, cancelled, gate, mainvars, ckpt,
                    gatePasses, rmLog, calls, events >>

\* "remaining = self.total - self.completed", a further read of completed;
\* eta, and "self.eta.emit(...)".
TfEta(t) ==
    /\ pc[t] = "tf_eta_emit"
    /\ etaLabel' = Strftime(Eta(total - completed, Rate(reg[t][1], reg[t][2])))
    /\ etaEvents' = etaEvents + 1
    /\ reg' = [reg EXCEPT ![t] = << >>]
    /\ pc' = [pc EXCEPT ![t] = "tf_if"]
    /\ UNCHANGED << config, fs, now, job2, counters, cancelled, gate, mainvars, ckpt,
                    gatePasses, rmLog, calls, progressEvents, errorEvents,
                    finishedEvents, finishedBy >>

\* "if self.completed == self.total", a further read of completed
TfCheckDone(t) ==
    /\ pc[t] = "tf_if"
    /\ pc' = [pc EXCEPT ![t] = IF completed = total THEN "tf_fin_c" ELSE "done"]
    /\ UNCHANGED << config, fs, timer, job2, counters, cancelled, gate, mainvars, reg, ckpt,
                    gatePasses, rmLog, calls, events >>

\* The payload: "converted": self.completed, ...
TfPayloadCompleted(t) ==
    /\ pc[t] = "tf_fin_c"
    /\ reg' = [reg EXCEPT ![t] = << completed >>]
    /\ pc' = [pc EXCEPT ![t] = "tf_fin_o"]
    /\ UNCHANGED << config, fs, timer, job2, counters, cancelled, gate, mainvars, ckpt,
                    gatePasses, rmLog, calls, events >>

\* ... "saved_bytes": self.orig_bytes ...
TfPayloadOrig(t) ==
    /\ pc[t] = "tf_fin_o"
    /\ reg' = [reg EXCEPT ![t] = Append(@, orig_bytes)]
    /\ pc' = [pc EXCEPT ![t] = "tf_fin_w"]
    /\ UNCHANGED << config, fs, timer, job2, counters, cancelled, gate, mainvars, ckpt,
                    gatePasses, rmLog, calls, events >>

\* ... - self.webp_bytes, and "self.finished.emit(...)"
TfEmitFinished(t) ==
    /\ pc[t] = "tf_fin_w"
    /\ finishedEvents' = Append(finishedEvents,
           [converted |-> reg[t][1], saved_bytes |-> reg[t][2] - webp_bytes])
    /\ finishedBy' = Append(finishedBy, t)
    /\ reg' = [reg EXCEPT ![t] = << >>]
    /\ pc' = [pc EXCEPT ![t] = "done"]
    /\ UNCHANGED << config, fs, timer, job2, counters, cancelled, gate, mainvars, ckpt,
                    gatePasses, rmLog, calls, progressEvents, etaEvents,
                    errorEvents >>

\* ------------------------------------------------------------------ Next
\* The steps of run() after the checkpoint.
Body(t) ==
    \/ Convert(t)
    \/ ResolveProbe(t)
    \/ Save(t)
    \/ Verify(t)
    \/ RemoveAttempt(t)
    \/ TaskError(t)
    \/ TfReadCompleted(t)
    \/ TfWriteCompleted(t)
    \/ TfReadOrig(t)
    \/ TfWriteOrig(t)
    \/ TfReadWebp(t)
    \/ TfWriteWebp(t)
    \/ TfPercent(t)
    \/ TfEmitProgress(t)
    \/ TfEtaRate(t)
    \/ TfEta(t)
    \/ TfCheckDone(t)
    \/ TfPayloadCompleted(t)
    \/ TfPayloadOrig(t)
    \/ TfEmitFinished(t)

Worker(t) ==
    \/ PoolStart(t)
    \/ GateAcquire(t)
    \/ GateTest(t)
    \/ GateWake(t)
    \/ CancelCheck(t)
    \/ Body(t)

Caller ==
    \/ StartCall
    \/ Submit
    \/ StartReturn
    \/ Pause
    \/ Resume
    \/ Cancel

Next ==
    \/ Caller
    \/ \E t \in Files : Worker(t)

Spec == Init /\ [][Next]_vars


\* The threads of the pool are scheduled by the operating system: a step a
\* worker can take is eventually taken (the lock of pause_cond, contended
\* among the workers, is eventually obtained), and the loop of start() runs
\* on, and the calls a conversion makes return. Nothing makes the caller
\* call pause, resume or cancel.
Fairness ==
    /\ WF_vars(Submit)
    /\ WF_vars(StartReturn)
    /\ \A t \in Files :
         /\ WF_vars(PoolStart(t))
         /\ SF_vars(GateAcquire(t))
         /\ SF_vars(GateWake(t))
         /\ WF_vars(GateTest(t))
         /\ WF_vars(CancelCheck(t))
         /\ WF_vars(Body(t))

LiveInit ==
    /\ Init
    /\ total <= LiveFiles

LiveSpec == LiveInit /\ [][Next]_vars /\ Fairness

\* ------------------------------------------------- the next job on the pool
\* ImageConverter.start, pressed again: Start is enabled again by cancel()
\* and by done(), the slot of the finished event. A new JobController is
\* built, whose constructor sets the thread limit of the one global pool,
\* and its start() hands its files to that pool, behind whatever the pool
\* still holds. self.ctrl now is the new controller: the window has no
\* way left to call the old one.
NewJob ==
    /\ ~job2.created
    /\ started
    /\ mainpc = "idle"
    /\ cancelled \/ finishedEvents # << >>
    /\ \E w \in 1..MaxWorkers, n \in 1..LiveFiles :
         /\ max_workers' = w
         /\ job2' = [created |-> TRUE, queued |-> n, running |-> 0]
    /\ UNCHANGED << total, delete_originals, retries, fs, timer, counters, cancelled, gate,
                    mainvars, pc, reg, ckpt, gatePasses, rmLog, calls, events >>

\* The pool starts the next task of the new job, after the tasks queued
\* before it, when a thread is free.
Pool2Start ==
    /\ job2.queued > 0
    /\ \A u \in Files : pc[u] # "queued"
    /\ Cardinality(Active) + job2.running < PoolThreads
    /\ job2' = [job2 EXCEPT !.queued = @ - 1, !.running = @ + 1]
    /\ UNCHANGED << config, fs, timer, counters, cancelled, gate, mainvars, pc, reg, ckpt,
                    gatePasses, rmLog, calls, events >>

\* run() of a task of the new job, whose controller is neither paused nor
\* cancelled, returns and gives its thread back.
Task2Run ==
    /\ job2.running > 0
    /\ job2' = [job2 EXCEPT !.running = @ - 1]
    /\ UNCHANGED << config, fs, timer, counters, cancelled, gate, mainvars, pc, reg, ckpt,
                    gatePasses, rmLog, calls, events >>

PoolNext ==
    \/ (~job2.created /\ Caller)
    \/ \E t \in Files : Worker(t)
    \/ NewJob
    \/ Pool2Start
    \/ Task2Run

\* The threads of the pool run the new job's tasks as they run the old
\* ones; nothing makes the user press Start again.
PoolSpec ==
    /\ LiveInit
    /\ [][PoolNext]_vars
    /\ Fairness
    /\ WF_vars(Pool2Start)
    /\ WF_vars(Task2Run)

\* safe_remove(path, retries) for every budget up to MaxRetries: a job with
\* delete_originals set whose tasks, all running, are about to call
\* safe_remove, and the os.remove attempts those calls make.
RemoveInit ==
    /\ total \in {n \in Files : n <= MaxWorkers}
    /\ max_workers = MaxWorkers
    /\ delete_originals = TRUE
    /\ retries \in 0..MaxRetries
    /\ completed = 0
    /\ orig_bytes = 0
    /\ webp_bytes = 0
    /\ cancelled = FALSE
    /\ paused = FALSE
    /\ lock = 0
    /\ started = TRUE
    /\ mainpc = "idle"
    /\ submitted = total
    /\ pc = [t \in Files |-> IF t <= total THEN "remove" ELSE "new"]
    /\ reg = [t \in Files |-> << >>]
    /\ ckpt = [t \in Files |-> IF t <= total THEN "false" ELSE "unread"]
    /\ gatePasses = [t \in Files |-> IF t <= total THEN 1 ELSE 0]
    /\ rmLog = [t \in Files |-> << >>]
    /\ hitTotal = {}
    /\ tfCalls = [t \in Files |-> 0]
    /\ teCalls = [t \in Files |-> 0]
    /\ progressEvents = << >>
    /\ etaEvents = 0
    /\ errorEvents = 0
    /\ finishedEvents = << >>
    /\ finishedBy = << >>
    /\ path = [t \in Files |-> 0]
    /\ webp_size = [t \in Files |-> IF t <= total THEN WebpSize(t) ELSE 0]
    /\ disk = DiskOf(total)
    /\ removed = {}
    /\ now = 0
    /\ etaLabel = << >>
    /\ job2 = NoJob2

RemoveNext == \E t \in Files : RemoveAttempt(t)

RemoveSpec == RemoveInit /\ [][RemoveNext]_vars

\* JobController as its constructor accepts it, with an empty list of files
\* or max_workers = 0: nothing in __init__ or start() looks at either.
ConfigInit ==
    /\ total \in 0..NumFiles
    /\ max_workers \in 0..MaxWorkers
    /\ total = 0 \/ max_workers = 0
    /\ delete_originals \in BOOLEAN
    /\ retries = DefaultRetries
    /\ Fresh
    /\ disk = EmptyDisk
    /\ now = 0

ConfigSpec == ConfigInit /\ [][Next]_vars

\* The ETA of task_finished for every job of up to EtaFiles files, every
\* count of completed tasks and every reading of the clock up to
\* MaxElapsed: the task whose increment gave completed its value (the last
\* of the files in Files that have run; the files of the job beyond
\* NumFiles are not followed one by one) has emitted its progress and is
\* about to compute the ETA, alone on the only thread.
EtaTask == IF completed < NumFiles THEN completed ELSE NumFiles

EtaInit ==
    /\ total \in 1..EtaFiles
    /\ completed \in 1..total
    /\ now \in 0..MaxElapsed
    /\ max_workers = 1
    /\ delete_originals = FALSE
    /\ retries = DefaultRetries
    /\ orig_bytes = SumOrig(1..completed)
    /\ webp_bytes = SumWebp(1..completed)
    /\ cancelled = FALSE
    /\ paused = FALSE
    /\ lock = 0
    /\ started = TRUE
    /\ mainpc = "idle"
    /\ submitted = total
    /\ pc = [t \in Files |-> IF t < EtaTask THEN "done"
                             ELSE IF t = EtaTask THEN "tf_eta"
                             ELSE IF t <= total THEN "queued" ELSE "new"]
    /\ reg = [t \in Files |-> << >>]
    /\ ckpt = [t \in Files |-> IF t <= EtaTask THEN "false" ELSE "unread"]
    /\ gatePasses = [t \in Files |-> IF t <= EtaTask THEN 1 ELSE 0]
    /\ rmLog = [t \in Files |-> << >>]
    /\ hitTotal = IF completed = total THEN {EtaTask} ELSE {}
    /\ tfCalls = [t \in Files |-> IF t <= EtaTask THEN 1 ELSE 0]
    /\ teCalls = [t \in Files |-> 0]
    /\ progressEvents = [i \in 1..completed |-> Percent(i, total)]
    /\ etaEvents = completed - 1
    /\ errorEvents = 0
    /\ finishedEvents = << >>
    /\ finishedBy = << >>
    /\ disk = DiskOf(EtaTask)
    /\ path = [t \in Files |-> 0]
    /\ webp_size = [t \in Files |-> 0]
    /\ removed = {}
    /\ etaLabel = IF completed = 1 THEN << >> ELSE Strftime(0)
    /\ job2 = NoJob2

EtaNext == \E t \in Files : TfEtaRate(t) \/ TfEta(t)

EtaSpec == EtaInit /\ [][EtaNext]_vars

\* resolve_name run by one task with nothing else running: a job whose
\* first task, alone on the only thread, has opened its image and is about
\* to call resolve_name, for every content of output_dir.
NameInit ==
    /\ total \in 1..NumFiles
    /\ max_workers = 1
    /\ delete_originals \in BOOLEAN
    /\ retries = DefaultRetries
    /\ completed = 0
    /\ orig_bytes = 0
    /\ webp_bytes = 0
    /\ cancelled = FALSE
    /\ paused = FALSE
    /\ lock = 0
    /\ started = TRUE
    /\ mainpc = "idle"
    /\ submitted = total
    /\ pc = [t \in Files |-> IF t = 1 THEN "resolve"
                             ELSE IF t <= total THEN "queued" ELSE "new"]
    /\ reg = [t \in Files |-> << >>]
    /\ ckpt = [t \in Files |-> IF t = 1 THEN "false" ELSE "unread"]
    /\ gatePasses = [t \in Files |-> IF t = 1 THEN 1 ELSE 0]
    /\ rmLog = [t \in Files |-> << >>]
    /\ hitTotal = {}
    /\ tfCalls = [t \in Files |-> 0]
    /\ teCalls = [t \in Files |-> 0]
    /\ progressEvents = << >>
    /\ etaEvents = 0
    /\ errorEvents = 0
    /\ finishedEvents = << >>
    /\ finishedBy = << >>
    /\ disk \in [Paths -> {NoFile, OldSize}]
    /\ path = [t \in Files |-> 0]
    /\ webp_size = [t \in Files |-> 0]
    /\ removed = {}
    /\ now = 0
    /\ etaLabel = << >>
    /\ job2 = NoJob2

NameNext == \E t \in Files : ResolveProbe(t)

NameSpec == NameInit /\ [][NameNext]_vars


\* ================================================================ claims

\* Positions inside task_finished.
InTaskFinished == {"tf_c_wr", "tf_o_rd", "tf_o_wr", "tf_w_rd", "tf_w_wr", "tf_pct",
                   "tf_emit", "tf_eta", "tf_eta_emit", "tf_if", "tf_fin_c",
                   "tf_fin_o", "tf_fin_w"}

\* Tasks that have returned from task_finished.
Returned == {t \in Files : tfCalls[t] = 1 /\ pc[t] = "done"}

\* C1: in every state 0 <= completed <= total, and completed never
\* decreases from one state to the next, whatever the interleaving of the
\* worker threads' task_finished calls.
C1_Claim ==
    /\ [](0 <= completed /\ completed <= total)
    /\ [][completed' >= completed]_vars

\* C2: no update is lost: once k tasks have returned from task_finished
\* and no call is under way, completed = k, orig_bytes is the sum of their
\* original sizes and webp_bytes the sum of their output sizes.
C2_Claim ==
    (\A t \in Files : pc[t] \notin InTaskFinished) =>
        /\ completed = Cardinality(Returned)
        /\ orig_bytes = SumOrig(Returned)
        /\ webp_bytes = SumWebp(Returned)

\* C3: the finished event of a job is emitted at most once, and only by
\* the task_finished call whose own increment made completed equal total.
C3_Claim ==
    /\ Len(finishedBy) <= 1
    /\ \A i \in 1..Len(finishedBy) : finishedBy[i] \in hitTotal

\* C4: in a job that was never cancelled and whose tasks have all converted
\* successfully and ended, the finished event has been emitted, and each
\* payload has converted = total and saved_bytes = the sum of the original
\* sizes minus the sum of the output sizes.
AllSucceeded ==
    /\ ~cancelled
    /\ submitted = total
    /\ \A t \in Job : pc[t] = "done" /\ tfCalls[t] = 1

C4_Claim ==
    AllSucceeded =>
        /\ Len(finishedEvents) >= 1
        /\ \A i \in 1..Len(finishedEvents) :
             /\ finishedEvents[i].converted = total
             /\ finishedEvents[i].saved_bytes = SumOrig(Job) - SumWebp(Job)


\* C5: cancellation is cooperative. A task that read cancelled = True at
\* its checkpoint has ended without any conversion step and without calling
\* task_finished or task_error; a task that read False is never stopped by
\* a later cancel(): it can always take its next step, and when it has
\* ended it has reported its outcome.
C5_Cooperative ==
    \A t \in Files :
        /\ ckpt[t] = "true" =>
             pc[t] = "done" /\ tfCalls[t] = 0 /\ teCalls[t] = 0
        /\ ckpt[t] = "false" =>
             IF pc[t] = "done" THEN tfCalls[t] + teCalls[t] = 1
             ELSE ENABLED Worker(t)
        /\ ckpt[t] = "unread" => tfCalls[t] = 0 /\ teCalls[t] = 0

\* One task aborted at its checkpoint, while another one, already past its
\* own checkpoint when cancel() was called, is about to call task_finished.
C5_Witness ==
    \E t, u \in Files :
        /\ cancelled
        /\ ckpt[t] = "true" /\ pc[t] = "done"
        /\ ckpt[u] = "false" /\ pc[u] = "tf_call"

\* C6: pause() then resume() drops no task and doubles none: no task leaves
\* the pause block twice or is counted twice, and in a job that is started,
\* never cancelled and eventually left resumed, every task of the job
\* leaves the pause block (exactly once).
C6_Safe ==
    \A t \in Files :
        /\ gatePasses[t] <= 1
        /\ tfCalls[t] + teCalls[t] <= 1
        /\ (pc[t] \in {"new", "queued", "lock", "test", "wait", "woken"})
             <=> gatePasses[t] = 0

C6_PauseResume ==
    /\ []C6_Safe
    /\ ([](~cancelled) /\ <>started /\ <>[](~paused))
         => <>(\A t \in Job : gatePasses[t] = 1)

\* A task that was blocked at the gate while the job was paused has passed
\* the gate after resume().
C6_Witness ==
    \E t, u \in Files :
        /\ ~cancelled /\ ~paused
        /\ pc[t] = "woken"
        /\ gatePasses[u] = 1 /\ pc[u] = "done" /\ tfCalls[u] = 1

\* C7: the pause gate loses no wakeup: a worker is blocked in
\* pause_cond.wait() only while paused is set (a resume() that has completed
\* has released every waiter), the flag is tested with the lock held, and a
\* released waiter can go on as soon as the lock is free.
C7_NoLostWakeup ==
    \A t \in Files :
        /\ pc[t] = "wait" => paused
        /\ pc[t] = "test" => lock = t
        /\ (pc[t] = "woken" /\ lock = 0) => ENABLED GateWake(t)

\* resume() has released a worker that was blocked in wait().
C7_Witness ==
    \E t \in Files : pc[t] = "woken" /\ ~paused

\* C8: a task that passed its checkpoint with cancelled = False reports
\* exactly one outcome, task_finished or task_error, by the time it ends and
\* never more than one; a task that aborted at the checkpoint reports none.
C8_OneOutcome ==
    \A t \in Files :
        /\ tfCalls[t] + teCalls[t] <= 1
        /\ (pc[t] = "done" /\ ckpt[t] = "false") => tfCalls[t] + teCalls[t] = 1
        /\ (pc[t] = "done" /\ ckpt[t] = "true") => tfCalls[t] + teCalls[t] = 0

\* Three tasks have ended: one succeeded, one failed, one aborted.
C8_Witness ==
    \E t, u, v \in Files :
        /\ pc[t] = "done" /\ tfCalls[t] = 1
        /\ pc[u] = "done" /\ teCalls[u] = 1
        /\ pc[v] = "done" /\ ckpt[v] = "true"


\* C9: a failing task is isolated and not counted. The task_error step
\* emits one error event, changes none of completed, orig_bytes,
\* webp_bytes, cancelled and paused, and gives its thread back to the pool;
\* once a task has failed the finished event is never emitted; and a job of
\* 2 files of which one failed and one succeeded ends with one error event
\* and completed = 1.
C9_ErrorStep ==
    \A t \in Files :
        (pc[t] = "error" /\ pc'[t] # "error") =>
            /\ errorEvents' = errorEvents + 1
            /\ teCalls'[t] = teCalls[t] + 1
            /\ UNCHANGED << completed, orig_bytes, webp_bytes, cancelled, paused >>
            /\ Active' = Active \ {t}

C9_Failed ==
    /\ (\E t \in Files : teCalls[t] >= 1) => finishedEvents = << >>
    /\ ( /\ total = 2
         /\ \A t \in Job : pc[t] = "done"
         /\ \E t, u \in Job : teCalls[t] = 1 /\ tfCalls[u] = 1 )
       => (completed = 1 /\ errorEvents = 1)

C9_ErrorIsolated ==
    /\ []C9_Failed
    /\ [][C9_ErrorStep]_vars

\* The job of 2 files has ended, one task failed and one succeeded.
C9_Witness ==
    /\ total = 2
    /\ \A t \in Job : pc[t] = "done"
    /\ \E t, u \in Job : teCalls[t] = 1 /\ tfCalls[u] = 1
    /\ completed = 1 /\ errorEvents = 1 /\ finishedEvents = << >>

\* C10: safe_remove(path, retries = R). Every attempt before the last one
\* made raised PermissionError; an attempt that succeeds ends the call at
\* once (return), an error that is not PermissionError ends it at once
\* (raise), and PermissionError on every attempt gives exactly R guarded
\* attempts and one final attempt, which raises.
AllPerm(log) == \A i \in 1..Len(log) : log[i] = "perm"

C10_SafeRemove ==
    \A t \in Job :
        LET log == rmLog[t]
            n == Len(log)
        IN  /\ n <= retries + 1
            /\ \A i \in 1..(n - 1) : log[i] = "perm"
            /\ pc[t] = "remove" <=> (AllPerm(log) /\ n <= retries)
            /\ pc[t] = "tf_call" <=> (n >= 1 /\ log[n] = "ok")
            /\ pc[t] = "error" <=>
                 (n >= 1 /\ (log[n] = "other" \/ (log[n] = "perm" /\ n = retries + 1)))

\* A call with a budget of at least one retry whose attempts all raised
\* PermissionError: it has raised at attempt retries + 1.
C10_Witness ==
    \E t \in Job :
        /\ retries >= 1
        /\ AllPerm(rmLog[t])
        /\ Len(rmLog[t]) = retries + 1
        /\ pc[t] = "error"


\* C11: resolve_name(base), run without interference, returns the first
\* path of <base>.webp, <base>_1.webp, <base>_2.webp, ... at which no file
\* exists: every path before the returned one exists and the returned one
\* does not (<base>.webp existing and <base>_1.webp not gives <base>_1.webp;
\* both existing and <base>_2.webp not gives <base>_2.webp), and the call
\* creates, changes and deletes no file.
C11_First ==
    \A t \in Files :
        pc[t] \in {"resolve", "save"} =>
            /\ \A i \in 0..(path[t] - 1) : Exists(disk, << Base(t), i >>)
            /\ pc[t] = "save" =>
                 /\ ~Exists(disk, << Base(t), path[t] >>)
                 /\ (Exists(disk, << Base(t), 0 >>) /\ ~Exists(disk, << Base(t), 1 >>))
                      => path[t] = 1
                 /\ ( /\ Exists(disk, << Base(t), 0 >>)
                      /\ Exists(disk, << Base(t), 1 >>)
                      /\ ~Exists(disk, << Base(t), 2 >>) ) => path[t] = 2

C11_ResolveName ==
    /\ []C11_First
    /\ [][disk' = disk]_vars

\* resolve_name has returned <base>_2.webp: <base>.webp and <base>_1.webp
\* exist.
C11_Witness ==
    \E t \in Files :
        /\ pc[t] = "save"
        /\ path[t] = 2
        /\ Exists(disk, << Base(t), 0 >>)
        /\ Exists(disk, << Base(t), 1 >>)


\* C12: a job configured with zero workers or with an empty set of input
\* files never begins: no task is submitted to the pool, no task runs, and
\* no progress, eta, error or finished event is produced.
C12_Claim ==
    (total = 0 \/ max_workers = 0) =>
        /\ submitted = 0
        /\ \A t \in Files : pc[t] = "new"
        /\ progressEvents = << >>
        /\ etaEvents = 0
        /\ errorEvents = 0
        /\ finishedEvents = << >>


\* C13: the check-then-use race of resolve_name. Two tasks with the same
\* base name that have both returned from resolve_name before either has
\* saved hold the same path, and each save writes the file at the path its
\* task holds and no other: there is an interleaving (C13_Witness) in which
\* both conversions report success and one output file remains.
SameBase(t, u) == t # u /\ Base(t) = Base(u)

C13_SamePath ==
    \A t, u \in Files :
        (SameBase(t, u) /\ pc[t] = "save" /\ pc[u] = "save") => path[t] = path[u]

C13_SaveStep ==
    \A t \in Files :
        (pc[t] = "save" /\ pc'[t] = "verify") =>
            /\ Exists(disk', << Base(t), path[t] >>)
            /\ \A p \in Paths : p # << Base(t), path[t] >> => disk'[p] = disk[p]

C13_NameRace ==
    /\ []C13_SamePath
    /\ [][C13_SaveStep]_vars

\* Both tasks of the same base name have returned from task_finished, and
\* output_dir holds one file of that name.
C13_Witness ==
    \E t, u \in Files :
        /\ SameBase(t, u)
        /\ pc[t] = "done" /\ tfCalls[t] = 1
        /\ pc[u] = "done" /\ tfCalls[u] = 1
        /\ Cardinality({p \in Paths : p[1] = Base(t) /\ Exists(disk, p)}) = 1


\* C14: a task that finds its output file with a size of zero or less ends
\* as a failure: it goes to task_error and never to safe_remove or
\* task_finished, completed, orig_bytes and webp_bytes are left alone, and
\* its original is not deleted, also when delete_originals is set.
BeforeWebpAdded == {"remove", "tf_call", "tf_c_wr", "tf_o_rd", "tf_o_wr",
                    "tf_w_rd", "tf_w_wr"}

C14_Verified ==
    \A t \in Files : pc[t] \in BeforeWebpAdded => webp_size[t] > 0

C14_Step ==
    \A t \in Files :
        /\ (pc[t] = "verify" /\ pc'[t] # "verify" /\ webp_size'[t] <= 0) =>
              /\ pc'[t] = "error"
              /\ UNCHANGED << completed, orig_bytes, webp_bytes, removed >>
        /\ (pc[t] = "error" /\ pc'[t] # "error" /\ webp_size[t] <= 0) =>
              /\ pc'[t] = "done"
              /\ teCalls'[t] = 1 /\ tfCalls'[t] = 0
              /\ t \notin removed'
              /\ UNCHANGED << completed, orig_bytes, webp_bytes, removed >>

C14_EmptyOutput ==
    /\ []C14_Verified
    /\ [][C14_Step]_vars

\* With delete_originals set, a task that alone has its base name left an
\* empty output file and has ended in task_error, its original kept.
C14_Witness ==
    \E t \in Files :
        /\ delete_originals
        /\ \A u \in Files : ~SameBase(t, u)
        /\ disk[<< Base(t), 0 >>] = 0
        /\ pc[t] = "done" /\ teCalls[t] = 1 /\ tfCalls[t] = 0
        /\ t \notin removed


\* C15: a task encodes, verifies, deletes, reports, in that order. The
\* output exists when it is verified; the original is removed only by a
\* task of a job with delete_originals set whose verification has passed
\* and which has not reported yet; task_finished is called only after the
\* removal has succeeded or when none was asked for; and a removal that
\* fails for good sends the task to task_error, with nothing deleted and
\* completed not incremented.
AfterRemove == {"tf_call", "done"} \cup InTaskFinished

C15_State ==
    \A t \in Files :
        /\ pc[t] = "verify" => Exists(disk, << Base(t), path[t] >>)
        /\ pc[t] = "remove" =>
              delete_originals /\ webp_size[t] > 0 /\ tfCalls[t] = 0
        /\ t \in removed =>
              delete_originals /\ teCalls[t] = 0 /\ pc[t] \in AfterRemove
        /\ (tfCalls[t] >= 1 /\ delete_originals) => t \in removed
        /\ teCalls[t] >= 1 => (tfCalls[t] = 0 /\ t \notin removed)

C15_Step ==
    \A t \in Files :
        /\ (t \notin removed /\ t \in removed') =>
              pc[t] = "remove" /\ pc'[t] = "tf_call"
        /\ (pc[t] = "remove" /\ pc'[t] = "error") =>
              t \notin removed' /\ completed' = completed

C15_Order ==
    /\ []C15_State
    /\ [][C15_Step]_vars

\* One task has deleted its original and returned from task_finished;
\* another one has used up the attempts of safe_remove and is about to
\* report its failure.
C15_Witness ==
    \E t, u \in Files :
        /\ delete_originals
        /\ t \in removed /\ pc[t] = "done" /\ tfCalls[t] = 1
        /\ pc[u] = "error" /\ Len(rmLog[u]) = retries + 1 /\ u \notin removed


\* C16: the progress values are emitted in non-decreasing order, and the
\* value 100 is emitted only by the task whose own increment brought
\* completed to total (each emitted percent being floor(c * 100 / total)
\* for the c that the emitting task's own increment produced), whatever
\* the interleaving.
C16_Claim ==
    /\ \A i, j \in 1..Len(progressEvents) :
          i < j => progressEvents[i] <= progressEvents[j]
    /\ Cardinality({i \in 1..Len(progressEvents) : progressEvents[i] = 100})
          <= Cardinality(hitTotal)


\* C17: the ETA never divides by zero and is never negative. With
\* elapsed = 0 the rate is 0 and the ETA 0 (00:00:00); otherwise the ETA
\* is (total - completed) * elapsed / completed, in whole seconds as
\* strftime prints it: total = 10, completed = 5, elapsed = 10 gives
\* 00:00:10, and the task that completes the job gets 00:00:00.
C17_Guarded ==
    \A t \in Files :
        pc[t] = "tf_eta_emit" =>
            LET rate == Rate(reg[t][1], reg[t][2])
            IN  /\ rate.den # 0
                /\ rate.num = 0 <=> reg[t][2] = 0
                /\ Eta(total - completed, rate) >= 0

C17_Step ==
    \A t \in Files :
        (pc[t] = "tf_eta_emit" /\ pc'[t] = "tf_if") =>
            LET c == reg[t][1]
                elapsed == reg[t][2]
            IN  /\ etaLabel' = Strftime(IF elapsed = 0 THEN 0
                                         ELSE ((total - c) * elapsed) \div c)
                /\ elapsed = 0 => etaLabel' = << 0, 0, 0 >>
                /\ c = total => etaLabel' = << 0, 0, 0 >>
                /\ (total = 10 /\ c = 5 /\ elapsed = 10) => etaLabel' = << 0, 0, 10 >>

C17_Eta ==
    /\ []C17_Guarded
    /\ [][C17_Step]_vars

\* total = 10, completed = 5, 10 seconds elapsed: 00:00:10 has been emitted.
C17_Witness ==
    /\ total = 10 /\ completed = 5 /\ now = 10
    /\ \E t \in Files : pc[t] = "tf_if"
    /\ etaLabel = << 0, 0, 10 >>


\* C18: once cancel() has been called, every task that holds a thread of
\* the pool eventually ends and gives the thread back, also when the job
\* is paused at that moment and resume() is never called.
C18_Claim ==
    \A t \in Files :
        []((cancelled /\ pc[t] \notin Idle) => <>(pc[t] = "done"))


\* C19: jobs do not interfere through the shared pool: when a job has been
\* cancelled, in whatever state, and a new JobController has been created
\* and started, every task of the new job is eventually started.
C19_Claim == [](job2.created => <>(job2.queued = 0))


\* C20: after cancel() no finished event is emitted for the job: once
\* cancelled is true, finished never fires.
C20_Claim == [][cancelled => finishedEvents' = finishedEvents]_vars

\* C20, amended: a finished event is emitted, after cancel() as before it,
\* only in a job all of whose files were submitted and all of whose tasks
\* read cancelled = False at their checkpoint and called task_finished;
\* once a task has aborted at its checkpoint, or start() has stopped
\* submitting, finished never fires.
C20_AllPassed ==
    /\ submitted = total
    /\ \A t \in Job : ckpt[t] = "false" /\ tfCalls[t] = 1

C20_State ==
    /\ finishedEvents # << >> => C20_AllPassed
    /\ (\E t \in Files : pc[t] \in {"tf_fin_c", "tf_fin_o", "tf_fin_w"})
         => C20_AllPassed

C20_Step ==
    finishedEvents' # finishedEvents =>
        /\ C20_AllPassed
        /\ \A t \in Job : ckpt'[t] = "false"

C20_Amended ==
    /\ []C20_State
    /\ [][C20_Step]_vars

\* cancel() has been called, every task had passed its checkpoint before,
\* and the last one is about to emit the first finished event.
C20_Witness ==
    /\ cancelled
    /\ finishedEvents = << >>
    /\ \E t \in Job : pc[t] = "tf_fin_w"

====
